---- MODULE Spec2Model ----
(***************************************************************************)
(* Model of "Python Script/Scraper.py": a sitemap crawler that downloads   *)
(* the PDF documents linked from the en-US pages of a site, uploads them   *)
(* to one Google Drive folder and then deletes the Drive files whose name  *)
(* was not uploaded in the run.                                            *)
(*                                                                         *)
(* Strings are sequences of one-character strings, so that substring       *)
(* tests, lower-casing and basename are computed as the code computes      *)
(* them. URLs are written without scheme and host.                         *)
(***************************************************************************)
EXTENDS Integers, Sequences, FiniteSets, TLC

\* ------------------------------------------------------------------ bounds
\* number of consecutive executions of main() that are explored
MaxRuns == 2
\* number of files in the Drive folder before the first run
MaxInitialFiles == 1
\* number of files in the folder when clean_up_old_files is called twice
MaxFolderFiles == 3
\* number of <loc> elements of the sitemaps given to get_sitemap_urls alone
MaxLocs == 3
\* number of responses the provider splits a listing into, files per response
MaxPages == 3
MaxPageSize == 2

\* --------------------------------------------------------- string helpers
\* Python: sub in s
Contains(sub, s) ==
    \E k \in 0..(Len(s) - Len(sub)) : SubSeq(s, k + 1, k + Len(sub)) = sub

\* the ASCII letters, upper case and lower case in the same order
UpperLetters ==
    <<"A", "B", "C", "D", "E", "F", "G", "H", "I", "J", "K", "L", "M",
      "N", "O", "P", "Q", "R", "S", "T", "U", "V", "W", "X", "Y", "Z">>
LowerLetters ==
    <<"a", "b", "c", "d", "e", "f", "g", "h", "i", "j", "k", "l", "m",
      "n", "o", "p", "q", "r", "s", "t", "u", "v", "w", "x", "y", "z">>

\* str.lower() of one character: an upper-case ASCII letter becomes its
\* lower-case letter, every other character of the model stays
LowerChar(c) ==
    IF \E k \in 1..Len(UpperLetters) : UpperLetters[k] = c
    THEN LowerLetters[CHOOSE k \in 1..Len(UpperLetters) : UpperLetters[k] = c]
    ELSE c

\* str.lower()
Lower(s) == [k \in 1..Len(s) |-> LowerChar(s[k])]

\* index of the last occurrence of character c in s, 0 when absent
LastIndexOf(c, s) ==
    IF \E k \in 1..Len(s) : s[k] = c
    THEN CHOOSE k \in 1..Len(s) : s[k] = c /\ \A j \in (k + 1)..Len(s) : s[j] # c
    ELSE 0

\* os.path.basename: what follows the last "/"
Basename(s) == SubSeq(s, LastIndexOf("/", s) + 1, Len(s))

\* urljoin(base, href) for a rooted href ("/x/y") and for a plain relative
\* href ("y"), which replaces the last segment of the base
UrlJoin(base, href) ==
    IF href = <<>> THEN base
    ELSE IF href[1] = "/" THEN href
    ELSE SubSeq(base, 1, LastIndexOf("/", base)) \o href

\* posixpath.splitext(...)[1] of the last segment: from its last "." on,
\* empty when there is none or when the segment only starts with dots
Ext(s) ==
    LET b == Basename(s)
        d == LastIndexOf(".", b)
    IN  IF d = 0 \/ (\A k \in 1..d : b[k] = ".") THEN <<>>
        ELSE SubSeq(b, d, Len(b))

\* ------------------------------------------------------- program constants
\* the locale filter literal of get_sitemap_urls
EN_US == <<"e", "n", "-", "U", "S">>
\* the extension marker literal of is_pdf_url
DOT_PDF == <<".", "p", "d", "f">>

\* ------------------------------------------------------------ the web site
PageA == <<"/", "e", "n", "-", "U", "S", "/", "a">>
PageB == <<"/", "e", "n", "-", "U", "S", "/", "b">>
PageC == <<"/", "e", "n", "-", "U", "S", "/", "c">>
PageF == <<"/", "f", "r", "-", "F", "R", "/", "a">>
PageLower == <<"/", "e", "n", "-", "u", "s", "/", "a">>
\* the text of an empty <loc/> element: elem.text is None
NoneText == <<>>

Doc1 == <<"/", "d", "/", "1", ".", "p", "d", "f">>
Doc1Other == <<"/", "e", "/", "1", ".", "p", "d", "f">>
Doc2Rel == <<"2", ".", "P", "D", "F">>
Doc3 == <<"/", "d", "/", "3", ".", "p", "d", "f">>
NotesTxt == <<"n", ".", "t", "x", "t">>

Name1 == <<"1", ".", "p", "d", "f">>
Name2 == <<"2", ".", "P", "D", "F">>
NameOld == <<"o", ".", "p", "d", "f">>

\* <a href=...> values of a page, in document order
Anchors(page) ==
    CASE page = PageA -> <<Doc1, NotesTxt, Doc1>>
      [] page = PageB -> <<NotesTxt>>
      [] page = PageC -> <<Doc1, Doc1Other>>
      [] page = PageF -> <<Doc3>>
      [] OTHER -> <<>>

\* <iframe src=...> and <embed src=...> values of a page, in document order
Embeds(page) ==
    CASE page = PageA -> <<Doc2Rel>>
      [] OTHER -> <<>>

\* the <loc> texts of the sitemaps the model explores
Sitemaps == {<<PageA, PageF, PageB>>, <<PageC>>, <<PageF>>}

\* names of the files that may be in the Drive folder before the first run
InitialNames == {Name1, NameOld}

\* sequences over S of length at most n
SeqsUpTo(S, n) == UNION {[1..k -> S] : k \in 0..n}

\* ------------------------------------------------ outcomes of the network
\* requests.get of the sitemap: 200 with a parseable body, another status,
\* a raised connection error, a body ET.fromstring rejects
SitemapOutcomes == {"ok", "non200", "unreachable", "unparseable"}
\* requests.get of a page: 200, another status, a raised error
PageOutcomes == {"ok", "non200", "error"}
\* one call of download_and_upload_pdf: everything succeeds, the status is
\* not 200, requests.get raises, iter_content raises after the file was
\* opened, the Drive create call raises
PdfOutcomes == {"ok", "non200", "conn_error", "stream_error", "upload_error"}
\* the process is killed inside a call of download_and_upload_pdf: while the
\* body is streamed to the staging file, while the Drive create call is
\* under way and the file not created, after the Drive created the file and
\* before todays_filenames.add, between todays_filenames.add and os.remove
KillPoints == {"kill_streaming", "kill_uploading", "kill_uploaded", "kill_added"}
\* one Drive delete call
DeleteOutcomes == {"ok", "fail"}

\* ------------------------------------------------------ the pure functions
\* variant: the locale test is left out
GetSitemapUrlsUnfiltered(locs, o) == IF o = "ok" THEN locs ELSE <<>>

\* get_sitemap_urls: the value returned (when it returns)
GetSitemapUrls(locs, o) ==
    IF o = "ok" THEN SelectSeq(locs, LAMBDA u : Contains(EN_US, u)) ELSE <<>>

\* get_sitemap_urls has no try block: requests.get and ET.fromstring raise
\* into main, which has none either, and so does the test "en-US" in
\* elem.text (line 49) of a parsed sitemap when the text of a <loc> is None
GetSitemapRaises(locs, o) ==
    \/ o \in {"unreachable", "unparseable"}
    \/ o = "ok" /\ \E k \in 1..Len(locs) : locs[k] = NoneText

\* posixpath.splitext(...)[0]: the path without its extension
Root(s) == SubSeq(s, 1, Len(s) - Len(Ext(s)))

\* mimetypes.suffix_map: the extensions that stand for two
SuffixMapKeys ==
    {<<".", "s", "v", "g", "z">>, <<".", "t", "g", "z">>,
     <<".", "t", "a", "z">>, <<".", "t", "z">>,
     <<".", "t", "b", "z", "2">>, <<".", "t", "x", "z">>}

SuffixMap(ext) ==
    CASE ext = <<".", "s", "v", "g", "z">> -> <<".", "s", "v", "g", ".", "g", "z">>
      [] ext = <<".", "t", "b", "z", "2">> -> <<".", "t", "a", "r", ".", "b", "z", "2">>
      [] ext = <<".", "t", "x", "z">> -> <<".", "t", "a", "r", ".", "x", "z">>
      [] OTHER -> <<".", "t", "a", "r", ".", "g", "z">>

\* guess_type: while ext.lower() is in suffix_map the extension is replaced
RECURSIVE ApplySuffixMap(_)
ApplySuffixMap(url) ==
    IF Lower(Ext(url)) \in SuffixMapKeys
    THEN ApplySuffixMap(Root(url) \o SuffixMap(Lower(Ext(url))))
    ELSE url

\* mimetypes.encodings_map: the extensions of an encoding, case sensitive;
\* guess_type takes one off and guesses by the extension before it
EncodingsMap ==
    {<<".", "g", "z">>, <<".", "Z">>, <<".", "b", "z", "2">>,
     <<".", "x", "z">>, <<".", "b", "r">>}

\* mimetypes.guess_type(url)[0], by the extension of the path
GuessType(url) ==
    LET u == ApplySuffixMap(url)
        ext == IF Ext(u) \in EncodingsMap THEN Ext(Root(u)) ELSE Ext(u)
    IN  IF Lower(ext) = DOT_PDF THEN "application/pdf" ELSE "other"

\* is_pdf_url
IsPdfUrl(href, base_url) ==
    LET full_url == UrlJoin(base_url, href)
    IN  \/ Contains(DOT_PDF, Lower(full_url))
        \/ GuessType(full_url) = "application/pdf"

Range(s) == {s[k] : k \in 1..Len(s)}

\* find_pdf_links, lines 67-74: pdf_links, the resolved anchor targets the
\* classifier accepts followed by the accepted iframe/embed targets
PdfLinksList(page_url) ==
    LET a == SelectSeq(Anchors(page_url), LAMBDA h : IsPdfUrl(h, page_url))
        e == SelectSeq(Embeds(page_url), LAMBDA h : IsPdfUrl(h, page_url))
    IN  [k \in 1..Len(a) |-> UrlJoin(page_url, a[k])]
            \o [k \in 1..Len(e) |-> UrlJoin(page_url, e[k])]

\* list(set(x)): the lists that hold every element of S once, in any order
Orderings(S) == {s \in [1..Cardinality(S) -> S] : Range(s) = S}

\* variant: pdf_links is returned as it is, without set()
FindPdfLinksNoSet(page_url, o) ==
    IF o # "ok" THEN {<<>>} ELSE {PdfLinksList(page_url)}

\* find_pdf_links: the lists the call can return
FindPdfLinks(page_url, o) ==
    IF o # "ok" THEN {<<>>} ELSE Orderings(Range(PdfLinksList(page_url)))

\* variant: find_pdf_links without its try block
FindPdfLinksRaisesUncaught(o) == o = "error"

\* find_pdf_links catches every Exception and returns []
FindPdfLinksRaises(o) == FALSE

\* download_and_upload_pdf catches every Exception
DownloadAndUploadRaises(o) == FALSE

\* variant: a link whose call failed is tried again
PendingAfterRetry(links, o) == IF o = "ok" THEN Tail(links) ELSE links

\* main, line 174: the for loop over pdf_links moves on after every call
PendingAfter(links, o) == Tail(links)

\* download_and_upload_pdf: open(local_path, "wb") was reached and succeeded
\* (an empty basename makes local_path the staging directory itself)
Opened(filename, o) ==
    o \in {"ok", "stream_error", "upload_error"} \cup KillPoints /\ filename # <<>>

\* download_and_upload_pdf: upload_to_drive was called
UploadAttempted(filename, o) ==
    /\ o \in {"ok", "upload_error", "kill_uploading", "kill_uploaded", "kill_added"}
    /\ filename # <<>>

\* upload_to_drive, line 128: the Drive created the file
Created(filename, o) ==
    o \in {"ok", "kill_uploaded", "kill_added"} /\ filename # <<>>

\* download_and_upload_pdf: upload_to_drive returned and line 143 was reached
UploadSucceeded(filename, o) == o \in {"ok", "kill_added"} /\ filename # <<>>

\* variant: the name is recorded first thing, whatever happens next
TodaysFilenamesAlways(tf, filename, o) == tf \cup {filename}

\* variant: the name is recorded before upload_to_drive is called
TodaysFilenamesBeforeUpload(tf, filename, o) ==
    IF UploadAttempted(filename, o) THEN tf \cup {filename} ELSE tf

\* download_and_upload_pdf: todays_filenames after the call
TodaysFilenamesAfter(tf, filename, o) ==
    IF UploadSucceeded(filename, o) THEN tf \cup {filename} ELSE tf

\* download_and_upload_pdf: the staging directory after the call; os.remove
\* is the last statement of the success path only
LocalFilesAfter(lf, filename, o) ==
    IF UploadSucceeded(filename, o) /\ o \notin KillPoints THEN lf \ {filename}
    ELSE IF Opened(filename, o) THEN lf \cup {filename}
    ELSE lf

\* variant: the upload replaces the files of the same name
UploadToDriveReplacing(files, filename, folder, id) ==
    {f \in files : f.name # filename \/ f.parent # folder}
        \cup {[id |-> id, name |-> filename, parent |-> folder]}

\* upload_to_drive: files().create adds a file with a new id
UploadToDrive(files, filename, folder, id) ==
    files \cup {[id |-> id, name |-> filename, parent |-> folder]}

\* variant: the folder query matches nothing
FolderLookupMiss(folderIds) == {}

\* get_or_create_folder: the items of the files().list query, the untrashed
\* folders of the given name
FolderLookup(folderIds) == folderIds

\* list_files_in_folder: the files whose parent is the folder
ListFilesInFolder(files, folder) == {f \in files : f.parent = folder}

\* variant: the test is inverted
ShouldDeleteInverted(file, tf) == file.name \in tf

\* clean_up_old_files: the test that guards the delete call
ShouldDelete(file, tf) == file.name \notin tf

\* the names of a set of Drive files
Names(files) == {f.name : f \in files}

\* clean_up_old_files: the files of a listing the loop issues a delete for
Outdated(files, tf) == {f \in files : ShouldDelete(f, tf)}

\* variant: a failed delete call is logged and the loop goes on
DeleteRaisesNever(o) == FALSE

\* clean_up_old_files has no try block around the delete call
DeleteRaises(o) == o = "fail"

\* ------------------------------------------------------------------ state
VARIABLES
    sitemap,           \* the <loc> texts the site serves (the run's input)
    run,               \* number of executions of main() started so far
    pc,                \* position in main(): idle, folder, scan, delete,
                       \* done (main returned), fatal (an exception left
                       \* main), killed (the process was interrupted)
    urls,              \* main: urls
    i,                 \* main: number of pages of urls taken by the for loop
    pending,           \* main: the part of pdf_links the inner loop has not taken
    folders,           \* Drive: ids of the untrashed folders named DRIVE_FOLDER_NAME
    folder_id,         \* main: folder_id (0 before it is resolved)
    remote,            \* Drive: the untrashed files, [id, name, parent]
    nextId,            \* Drive: the next id the provider assigns
    todays_filenames,  \* main: todays_filenames
    localFiles,        \* names of the files in LOCAL_SAVE_DIR
    existing_files,    \* clean_up_old_files: existing_files
    todo,              \* clean_up_old_files: listed files not deleted so far
    \* history of the current run, for stating the properties
    sitemapStatus,     \* outcome of the sitemap fetch
    createdFolder,     \* a folder was created
    lastPage,          \* outcome of the last find_pdf_links call
    found,             \* the links the last find_pdf_links call returned
    called,            \* the links of that page given to download_and_upload_pdf
    nCalls,            \* number of download_and_upload_pdf calls for that page
    last,              \* the last download_and_upload_pdf call: its link, its
                       \* outcome, whether it opened the staging file and
                       \* whether it called upload_to_drive
    failed,            \* some page, download, upload or delete failed
    uploaded,          \* Drive files created
    delAttempted,      \* Drive files a delete call was issued for
    deleteFailed,      \* Drive files whose delete call raised
    providerPages,     \* Drive: the files of each response of the listing
    page_token,        \* list_files_in_folder: page_token
    fileList,          \* list_files_in_folder: files
    tokensSent,        \* the pageToken of each list request sent
    prev               \* the previous run: the folder as it left it when every
                       \* operation succeeded, the files it had uploaded
                       \* when it was killed

vars == <<sitemap, run, pc, urls, i, pending, folders, folder_id, remote,
          nextId, todays_filenames, localFiles, existing_files, todo,
          sitemapStatus, createdFolder, lastPage, found, called, nCalls, last,
          failed, uploaded, delAttempted, deleteFailed, providerPages,
          page_token, fileList, tokensSent, prev>>

paging == <<providerPages, page_token, fileList, tokensSent>>

\* page_token = None
NoToken == 0

world == <<sitemap, folders, remote, nextId, localFiles>>
history == <<sitemapStatus, createdFolder, lastPage, found, called, nCalls,
             last, failed, uploaded, delAttempted, deleteFailed>>

NoPrev == [clean |-> FALSE, killed |-> FALSE, remote |-> {}, left |-> {}]

NoCall == [url |-> <<>>, o |-> "none", opened |-> FALSE, upload |-> FALSE]

\* name of the staging file the last call opened, or <<>>
staged == IF last.opened THEN Basename(last.url) ELSE <<>>

\* what main holds when a process starts, and an empty history
FreshRun ==
    /\ run = 0
    /\ pc = "idle"
    /\ urls = <<>>
    /\ i = 0
    /\ pending = <<>>
    /\ folder_id = 0
    /\ todays_filenames = {}
    /\ existing_files = {}
    /\ todo = {}
    /\ sitemapStatus = "none"
    /\ createdFolder = FALSE
    /\ lastPage = "none"
    /\ found = {}
    /\ called = {}
    /\ nCalls = 0
    /\ last = NoCall
    /\ failed = FALSE
    /\ uploaded = {}
    /\ delAttempted = {}
    /\ deleteFailed = {}
    /\ prev = NoPrev
    /\ providerPages = <<>>
    /\ page_token = NoToken
    /\ fileList = <<>>
    /\ tokensSent = <<>>

\* The Drive folder either does not exist yet, or exists (id 1) and holds up
\* to MaxInitialFiles files left by earlier runs; names may repeat.
Init ==
    /\ sitemap \in Sitemaps
    /\ \/ /\ folders = {}
          /\ remote = {}
          /\ nextId = 1
       \/ /\ folders = {1}
          /\ \E names \in SeqsUpTo(InitialNames, MaxInitialFiles) :
                /\ remote = {[id |-> k + 1, name |-> names[k], parent |-> 1] :
                               k \in 1..Len(names)}
                /\ nextId = Len(names) + 2
    /\ localFiles = {}
    /\ FreshRun

\* ---------------------------------------------------------------- actions
\* main, lines 160-162: a new process starts and calls get_sitemap_urls
GetSitemap(o) ==
    /\ UNCHANGED paging
    /\ pc \in {"idle", "done", "fatal", "killed"}
    /\ run < MaxRuns
    /\ run' = run + 1
    /\ prev' = IF pc = "done" /\ ~failed /\ sitemapStatus = "ok"
               THEN [clean |-> TRUE, killed |-> FALSE, remote |-> remote,
                     left |-> {}]
               ELSE IF pc = "killed"
               THEN [clean |-> FALSE, killed |-> TRUE, remote |-> {},
                     left |-> uploaded \cap remote]
               ELSE NoPrev
    /\ sitemapStatus' = o
    /\ IF GetSitemapRaises(sitemap, o)
       THEN pc' = "fatal" /\ urls' = <<>>
       ELSE pc' = "folder" /\ urls' = GetSitemapUrls(sitemap, o)
    /\ i' = 0
    /\ pending' = <<>>
    /\ folder_id' = 0
    /\ todays_filenames' = {}
    /\ existing_files' = {}
    /\ todo' = {}
    /\ createdFolder' = FALSE
    /\ lastPage' = "none"
    /\ found' = {}
    /\ called' = {}
    /\ nCalls' = 0
    /\ last' = NoCall
    /\ failed' = FALSE
    /\ uploaded' = {}
    /\ delAttempted' = {}
    /\ deleteFailed' = {}
    /\ UNCHANGED world

\* main, lines 164-167: get_or_create_folder, then todays_filenames = set()
GetOrCreateFolder ==
    /\ UNCHANGED paging
    /\ pc = "folder"
    /\ IF FolderLookup(folders) # {}
       THEN /\ folder_id' \in FolderLookup(folders)
            /\ UNCHANGED <<folders, nextId, createdFolder>>
       ELSE /\ folder_id' = nextId
            /\ folders' = folders \cup {nextId}
            /\ nextId' = nextId + 1
            /\ createdFolder' = TRUE
    /\ todays_filenames' = {}
    /\ pc' = "scan"
    /\ UNCHANGED <<sitemap, run, urls, i, pending, remote, localFiles,
                   existing_files, todo, sitemapStatus, lastPage, found,
                   called, nCalls, last, failed, uploaded, delAttempted,
                   deleteFailed, prev>>

\* main, lines 169-173: the for loop takes the next page and calls
\* find_pdf_links on it
ScanPage(o) ==
    /\ UNCHANGED paging
    /\ pc = "scan"
    /\ pending = <<>>
    /\ i < Len(urls)
    /\ i' = i + 1
    /\ lastPage' = o
    /\ called' = {}
    /\ nCalls' = 0
    /\ IF FindPdfLinksRaises(o)
       THEN /\ pc' = "fatal"
            /\ found' = {}
            /\ UNCHANGED pending
       ELSE /\ pc' = "scan"
            /\ \E pdf_links \in FindPdfLinks(urls[i + 1], o) :
                  /\ pending' = pdf_links
                  /\ found' = Range(pdf_links)
    /\ failed' = (failed \/ o # "ok")
    /\ UNCHANGED <<sitemap, run, urls, folders, folder_id, remote, nextId,
                   todays_filenames, localFiles, existing_files, todo,
                   sitemapStatus, createdFolder, last, uploaded, delAttempted,
                   deleteFailed, prev>>

\* main, lines 174-175: one call of download_and_upload_pdf (lines 132-148)
\* on the next link of pdf_links
ProcessPdf(pdf_url, o) ==
    LET filename == Basename(pdf_url)
    IN  /\ UNCHANGED paging
        /\ pc = "scan"
        /\ pending # <<>>
        /\ pdf_url = Head(pending)
        /\ o \in KillPoints => run < MaxRuns
        /\ pending' = PendingAfter(pending, o)
        /\ called' = called \cup {pdf_url}
        /\ nCalls' = nCalls + 1
        /\ last' = [url |-> pdf_url, o |-> o,
                    opened |-> Opened(filename, o),
                    upload |-> UploadAttempted(filename, o)]
        /\ IF Created(filename, o)
           THEN /\ remote' = UploadToDrive(remote, filename, folder_id, nextId)
                /\ uploaded' = uploaded \cup (remote' \ remote)
                /\ nextId' = nextId + 1
           ELSE UNCHANGED <<remote, uploaded, nextId>>
        /\ todays_filenames' = TodaysFilenamesAfter(todays_filenames, filename, o)
        /\ localFiles' = LocalFilesAfter(localFiles, filename, o)
        /\ failed' = (failed \/ o # "ok" \/ filename = <<>>)
        /\ pc' = IF o \in KillPoints THEN "killed"
                 ELSE IF DownloadAndUploadRaises(o) THEN "fatal" ELSE "scan"
        /\ UNCHANGED <<sitemap, run, urls, i, folders, folder_id,
                       existing_files, todo, sitemapStatus, createdFolder,
                       lastPage, found, delAttempted, deleteFailed, prev>>

\* variant: clean_up_old_files is called inside the loop over urls
LoopDoneAfterAnyPage == pending = <<>>

\* main: the for loop over urls (and the inner one over pdf_links) has ended
LoopDone == pending = <<>> /\ i = Len(urls)

\* main, line 177, and clean_up_old_files, line 152: the listing is fetched
ListFiles ==
    /\ UNCHANGED paging
    /\ pc = "scan"
    /\ LoopDone
    /\ existing_files' = ListFilesInFolder(remote, folder_id)
    /\ todo' = existing_files'
    /\ pc' = IF Outdated(existing_files', todays_filenames) = {}
             THEN "done" ELSE "delete"
    /\ UNCHANGED <<sitemap, run, urls, i, pending, folders, folder_id, remote,
                   nextId, todays_filenames, localFiles, history, prev>>

\* clean_up_old_files, lines 153-156: the for loop passes the listed files
\* whose name is expected and reaches one whose name is not (the provider
\* fixes no order), which it deletes; main returns after the last one
CleanUpStep(file, o) ==
    /\ UNCHANGED paging
    /\ pc = "delete"
    /\ file \in todo
    /\ ShouldDelete(file, todays_filenames)
    /\ todo' = todo \ {file}
    /\ delAttempted' = delAttempted \cup {file}
    /\ IF o = "ok"
       THEN /\ remote' = remote \ {file}
            /\ UNCHANGED <<deleteFailed, failed>>
       ELSE /\ deleteFailed' = deleteFailed \cup {file}
            /\ failed' = TRUE
            /\ UNCHANGED remote
    /\ pc' = IF DeleteRaises(o) THEN "fatal"
             ELSE IF Outdated(todo', todays_filenames) = {} THEN "done"
             ELSE "delete"
    /\ UNCHANGED <<sitemap, run, urls, i, pending, folders, folder_id, nextId,
                   todays_filenames, localFiles, existing_files, sitemapStatus,
                   createdFolder, lastPage, found, called, nCalls, last,
                   uploaded, prev>>

\* the process is killed between two calls made by main (a kill inside
\* download_and_upload_pdf is an outcome of ProcessPdf); a kill is explored
\* where another run can follow it
Interrupt ==
    /\ UNCHANGED paging
    /\ pc \in {"folder", "scan", "delete"}
    /\ run < MaxRuns
    /\ pc' = "killed"
    /\ UNCHANGED <<sitemap, run, urls, i, pending, folders, folder_id, remote,
                   nextId, todays_filenames, localFiles, existing_files, todo,
                   history, prev>>

Next ==
    \/ \E o \in SitemapOutcomes : GetSitemap(o)
    \/ GetOrCreateFolder
    \/ \E o \in PageOutcomes : ScanPage(o)
    \/ \E o \in PdfOutcomes : ProcessPdf(Head(pending), o)
    \/ \E o \in KillPoints : ProcessPdf(Head(pending), o)
    \/ ListFiles
    \/ \E f \in todo, o \in DeleteOutcomes : CleanUpStep(f, o)
    \/ Interrupt

Spec == Init /\ [][Next]_vars

\* ------------------------------------------------ get_sitemap_urls alone
\* the texts a <loc> element of the sitemap may have
Locs == {PageA, PageB, PageF, PageLower, NoneText}

\* every sitemap of up to MaxLocs <loc> elements, no Drive folder yet
InitSitemap ==
    /\ sitemap \in SeqsUpTo(Locs, MaxLocs)
    /\ folders = {}
    /\ remote = {}
    /\ nextId = 1
    /\ localFiles = {}
    /\ FreshRun

NextSitemap == \E o \in SitemapOutcomes : GetSitemap(o)

SpecSitemap == InitSitemap /\ [][NextSitemap]_vars

\* ---------------------------------------------- list_files_in_folder alone
RECURSIVE Sum(_)
Sum(sizes) == IF sizes = <<>> THEN 0 ELSE Head(sizes) + Sum(Tail(sizes))

\* the responses of a listing with the given numbers of files: the files get
\* the ids from 2 on, in the order of the listing
PagesOf(sizes) ==
    [k \in 1..Len(sizes) |->
        [j \in 1..sizes[k] |->
            [id |-> Sum(SubSeq(sizes, 1, k - 1)) + j + 1,
             name |-> IF j = 1 THEN Name1 ELSE NameOld,
             parent |-> 1]]]

\* files().list(..., pageToken=page_token).execute(): the provider answers
\* the first request with its first page and a request with a token with the
\* page the token stands for; every page but the last carries a token
Respond(provider, token) ==
    LET k == IF token = NoToken THEN 1 ELSE token
    IN  [files |-> provider[k],
         nextPageToken |-> IF k < Len(provider) THEN k + 1 ELSE NoToken]

\* variant: the loop ends after the first response
LoopEndsAfterFirst(token) == TRUE

\* list_files_in_folder, lines 120-121: if page_token is None: break
LoopEnds(token) == token = NoToken

\* list_files_in_folder is called (from clean_up_old_files, line 152) on a
\* folder whose listing the provider splits into 1..MaxPages responses of
\* 0..MaxPageSize files each
InitListing ==
    /\ sitemap = <<PageF>>
    /\ run = 1
    /\ pc = "listing"
    /\ urls = <<>>
    /\ i = 0
    /\ pending = <<>>
    /\ folders = {1}
    /\ folder_id = 1
    /\ \E sizes \in SeqsUpTo(0..MaxPageSize, MaxPages) \ {<<>>} :
          /\ providerPages = PagesOf(sizes)
          /\ remote = UNION {Range(providerPages[k]) : k \in 1..Len(sizes)}
          /\ nextId = Sum(sizes) + 2
    /\ page_token = NoToken
    /\ fileList = <<>>
    /\ tokensSent = <<>>
    /\ todays_filenames = {}
    /\ localFiles = {}
    /\ existing_files = {}
    /\ todo = {}
    /\ sitemapStatus = "ok"
    /\ createdFolder = FALSE
    /\ lastPage = "none"
    /\ found = {}
    /\ called = {}
    /\ nCalls = 0
    /\ last = NoCall
    /\ failed = FALSE
    /\ uploaded = {}
    /\ delAttempted = {}
    /\ deleteFailed = {}
    /\ prev = NoPrev

\* list_files_in_folder, lines 117-121: one pass of the while loop; after the
\* last one the function returns files (line 122)
ListRequest ==
    LET response == Respond(providerPages, page_token)
    IN  /\ pc = "listing"
        /\ tokensSent' = Append(tokensSent, page_token)
        /\ fileList' = fileList \o response.files
        /\ page_token' = response.nextPageToken
        /\ IF LoopEnds(page_token')
           THEN /\ pc' = "listed"
                /\ existing_files' = Range(fileList')
           ELSE /\ pc' = "listing"
                /\ UNCHANGED existing_files
        /\ UNCHANGED <<sitemap, run, urls, i, pending, folders, folder_id,
                       remote, nextId, todays_filenames, localFiles, todo,
                       history, providerPages, prev>>

NextListing == ListRequest

SpecListing == InitListing /\ [][NextListing]_vars /\ WF_vars(ListRequest)

\* ------------------------------------------- clean_up_old_files called twice
\* main has reached line 177 with an empty sitemap list or after its loop:
\* the folder holds up to MaxFolderFiles files, among them one for every
\* name of todays_filenames
InitReconcile ==
    /\ sitemap = <<PageF>>
    /\ run = 1
    /\ pc = "scan"
    /\ urls = <<>>
    /\ i = 0
    /\ pending = <<>>
    /\ folders = {1}
    /\ folder_id = 1
    /\ \E names \in SeqsUpTo({Name1, Name2, NameOld}, MaxFolderFiles) :
          /\ remote = {[id |-> k + 1, name |-> names[k], parent |-> 1] :
                         k \in 1..Len(names)}
          /\ nextId = Len(names) + 2
    /\ todays_filenames \in SUBSET Names(remote)
    /\ localFiles = {}
    /\ existing_files = {}
    /\ todo = {}
    /\ sitemapStatus = "ok"
    /\ createdFolder = FALSE
    /\ lastPage = "none"
    /\ found = {}
    /\ called = {}
    /\ nCalls = 0
    /\ last = NoCall
    /\ failed = FALSE
    /\ uploaded = {}
    /\ delAttempted = {}
    /\ deleteFailed = {}
    /\ prev = NoPrev
    /\ providerPages = <<>>
    /\ page_token = NoToken
    /\ fileList = <<>>
    /\ tokensSent = <<>>

\* a second call of clean_up_old_files (lines 151-156) right after the first
\* one returned: the listing is fetched again and a delete is issued for
\* every listed file whose name is not expected, until one raises
CleanUpOldFilesAgain ==
    /\ UNCHANGED paging
    /\ pc = "done"
    /\ existing_files' = ListFilesInFolder(remote, folder_id)
    /\ todo' = {}
    /\ \E deleted \in SUBSET Outdated(existing_files', todays_filenames) :
       \E raised \in SUBSET (Outdated(existing_files', todays_filenames) \ deleted) :
          /\ Cardinality(raised) <= 1
          /\ raised = {} =>
                deleted = Outdated(existing_files', todays_filenames)
          /\ remote' = remote \ deleted
          /\ delAttempted' = delAttempted \cup deleted \cup raised
          /\ deleteFailed' = deleteFailed \cup raised
          /\ failed' = (failed \/ raised # {})
          /\ pc' = IF raised = {} THEN "done_again" ELSE "fatal"
    /\ UNCHANGED <<sitemap, run, urls, i, pending, folders, folder_id, nextId,
                   todays_filenames, localFiles, sitemapStatus, createdFolder,
                   lastPage, found, called, nCalls, last, uploaded, prev>>

NextReconcile ==
    \/ ListFiles
    \/ \E f \in todo, o \in DeleteOutcomes : CleanUpStep(f, o)
    \/ CleanUpOldFilesAgain

SpecReconcile == InitReconcile /\ [][NextReconcile]_vars

\* ------------------------------------------------------------- properties
\* C1: clean_up_old_files never issues a delete for a remote file whose name
\* is in the todays_filenames built during the run.
C1_NeverDeletesExpected ==
    \A f \in delAttempted : f.name \notin todays_filenames

\* a run that ended after deleting one listed file and keeping another one,
\* whose name is expected
C1_Witness ==
    /\ pc = "done"
    /\ delAttempted # {}
    /\ \E f \in existing_files : f.name \in todays_filenames /\ f \in remote

\* C2: a name is in todays_filenames only if an upload of a file of that name
\* has completed in the same run; a failed download and a failed upload add
\* nothing.
C2_ExpectedOnlyAfterUpload ==
    \A n \in todays_filenames : \E f \in uploaded : f.name = n /\ f \in remote

\* a run in which one upload succeeded and the upload of a document with
\* another name then failed
C2_Witness ==
    /\ todays_filenames # {}
    /\ last.o = "upload_error"
    /\ Basename(last.url) \notin todays_filenames

\* C3: when the sitemap is unreachable, answers with a status other than 200
\* or cannot be parsed, the run creates no folder, uploads nothing and deletes
\* nothing.
C3_FatalSitemapNoMutation ==
    sitemapStatus \in {"non200", "unreachable", "unparseable"}
        => ~createdFolder /\ uploaded = {} /\ delAttempted = {}

\* C4: when a run has completed (every delete succeeded), the files of the
\* folder are exactly the files uploaded in that run.
C4_RemoteEqualsUploaded ==
    pc = "done" => ListFilesInFolder(remote, folder_id) = uploaded

\* C5: a second run after a first run in which every operation succeeded,
\* itself with every operation succeeding, leaves the remote file set as the
\* first run left it and issues no delete.
C5_SecondRunIdempotent ==
    (pc = "done" /\ prev.clean /\ ~failed /\ sitemapStatus = "ok")
        => remote = prev.remote /\ delAttempted = {}

\* C6: after a failed delete the remaining deletions are still attempted and
\* the run does not fail: when the run has ended, a delete was issued for
\* every listed file whose name is not expected, and main returned.
C6_DeleteFailureIsolated ==
    (deleteFailed # {} /\ pc \in {"done", "fatal"})
        => /\ pc = "done"
           /\ \A f \in existing_files :
                 f.name \notin todays_filenames => f \in delAttempted

\* C7: when download_and_upload_pdf has returned, the staging file it opened
\* no longer exists.
C7_StagingFileRemoved ==
    staged # <<>> => staged \notin localFiles

C9_FailuresIsolated ==
    /\ pc = "fatal" => (GetSitemapRaises(sitemap, sitemapStatus) \/ deleteFailed # {})
    /\ pc = "scan" => called \cup Range(pending) = found
    /\ pc \in {"delete", "done"} =>
          /\ i = Len(urls)
          /\ called = found

\* a completed run in which one page failed, a document of another page
\* failed to download or to upload, and another document was uploaded
C9_Witness ==
    /\ pc = "done"
    /\ lastPage \in {"non200", "error"}
    /\ last.o \in {"non200", "conn_error", "stream_error", "upload_error"}
    /\ uploaded # {}

\* C10: the listing is fetched, and deletes are issued, only when the loop
\* over urls has ended and every discovered link has been processed; the
\* listing holds every file uploaded in the run.
C10_ReconcileAfterUploads ==
    (pc = "delete" \/ existing_files # {} \/ delAttempted # {}) =>
        /\ i = Len(urls)
        /\ pending = <<>>
        /\ called = found
        /\ uploaded \subseteq existing_files

\* reconciliation after two uploads: a listed file was deleted
C10_Witness ==
    /\ pc = "done"
    /\ Cardinality(uploaded) >= 2
    /\ delAttempted # {}
    /\ deleteFailed = {}

\* C11: when two documents with the same derived filename were both uploaded
\* in a run, the folder holds one file of that name after reconciliation.
C11_OneOfCollidingRetained ==
    pc = "done" =>
        \A n \in Names(uploaded) :
            Cardinality({f \in uploaded : f.name = n}) >= 2 =>
                Cardinality({f \in ListFilesInFolder(remote, folder_id) :
                               f.name = n}) = 1

\* no <loc> text of the sitemap contains the locale filter
NoLocaleMatch == \A k \in 1..Len(sitemap) : ~Contains(EN_US, sitemap[k])

\* C13: when the sitemap is fetched and no <loc> matches the locale filter,
\* the run goes on to reconciliation with an empty todays_filenames: no page
\* is scanned, nothing is uploaded, a delete is issued for every listed file
\* and the folder is empty when the run has completed.
C13_EmptySitemapDeletesAll ==
    (sitemapStatus = "ok" /\ NoLocaleMatch) =>
        /\ urls = <<>>
        /\ nCalls = 0 /\ uploaded = {} /\ todays_filenames = {}
        /\ pc = "fatal" => deleteFailed # {}
        /\ pc = "done" =>
              /\ delAttempted = existing_files
              /\ ListFilesInFolder(remote, folder_id) = {}

\* a completed run on a sitemap without matching <loc> that deleted a file
C13_Witness ==
    /\ sitemapStatus = "ok" /\ NoLocaleMatch
    /\ pc = "done"
    /\ delAttempted # {}

\* C18: get_or_create_folder returns the id of the existing folder and
\* creates nothing when there is one, creates exactly one folder and returns
\* its id otherwise; over all runs there is at most one folder of the name.
C18_FolderGetOrCreate ==
    /\ [][(pc = "folder" /\ pc' = "scan") =>
            IF folders # {}
            THEN folder_id' \in folders /\ folders' = folders /\ nextId' = nextId
            ELSE Cardinality(folders') = 1 /\ folders' = {folder_id'}]_vars
    /\ [](Cardinality(folders) <= 1)
    /\ [](folder_id # 0 => folders = {folder_id})

\* a second run resolved the folder that was there and created none
C18_Witness ==
    /\ run = 2
    /\ pc = "scan"
    /\ ~createdFolder
    /\ folders = {folder_id}

\* C20: a successful upload adds exactly one file, with an id no file of the
\* provider has, and leaves every other file as it is; a file is removed only
\* by the delete of clean_up_old_files, one at a time.
C20_UploadOnlyAdds ==
    [][/\ remote' # remote =>
           \/ /\ pc = "scan"
              /\ remote \subseteq remote'
              /\ uploaded' = uploaded \cup (remote' \ remote)
              /\ \E f \in remote' :
                    /\ remote' = remote \cup {f}
                    /\ f.id \notin {g.id : g \in remote}
                    /\ f.parent = folder_id
           \/ /\ pc = "delete"
              /\ remote' \subseteq remote
              /\ Cardinality(remote \ remote') = 1
              /\ uploaded' = uploaded
       /\ (run' = run /\ todays_filenames' # todays_filenames) => remote' # remote
      ]_vars

\* a folder that holds a file uploaded in the run next to an older file of
\* the same name
C20_Witness ==
    \E f \in uploaded, g \in remote \ uploaded :
        f \in remote /\ f.name = g.name /\ f.parent = g.parent

\* C14: when the run after an interrupted run completes with every operation
\* succeeding, the folder holds exactly the files that run uploaded, and none
\* of the files the interrupted run had uploaded.
C14_NextRunRepairs ==
    (pc = "done" /\ prev.killed /\ ~failed /\ sitemapStatus = "ok") =>
        /\ ListFilesInFolder(remote, folder_id) = uploaded
        /\ prev.left \cap remote = {}

\* C12: a second call of clean_up_old_files right after a first call that
\* returned, with the same todays_filenames, issues no delete, leaves every
\* remote file as it is and returns.
C12_SecondCleanUpNoOp ==
    [][pc = "done" =>
          /\ delAttempted' = delAttempted
          /\ remote' = remote
          /\ pc' \in {"done", "done_again"}]_vars

\* the first call deleted a file and kept another one, the second call returned
C12_Witness ==
    /\ pc = "done_again"
    /\ delAttempted # {}
    /\ todays_filenames # {}
    /\ existing_files # {}

\* the positions of the sitemap whose <loc> text contains "en-US"
MatchingLocs == {k \in 1..Len(sitemap) : Contains(EN_US, sitemap[k])}

\* C15: for every sitemap answered with status 200 and a parseable body,
\* get_sitemap_urls returns, and urls holds the <loc> texts that contain
\* "en-US", each one once per occurrence and in document order, and nothing
\* else.
C15_SitemapUrlsFiltered ==
    sitemapStatus = "ok" =>
        /\ pc # "fatal"
        /\ Len(urls) = Cardinality(MatchingLocs)
        /\ \E at \in [1..Len(urls) -> MatchingLocs] :
              /\ \A a, b \in 1..Len(urls) : a < b => at[a] < at[b]
              /\ \A a \in 1..Len(urls) : urls[a] = sitemap[at[a]]

\* the resolved targets of a page's anchors, iframes and embeds that
\* is_pdf_url accepts
AcceptedTargets(page_url) ==
    {UrlJoin(page_url, h) :
        h \in {x \in Range(Anchors(page_url)) \cup Range(Embeds(page_url)) :
                 IsPdfUrl(x, page_url)}}

\* C16: the list find_pdf_links returns holds no URL twice; for a page
\* answered with status 200 its elements are the resolved anchor, iframe and
\* embed targets is_pdf_url accepts; for a page fetch that fails it is empty,
\* and the failure does not leave main.
C16_FindPdfLinksResult ==
    /\ (pc = "scan" /\ i > 0 /\ nCalls = 0) =>
          /\ \A a, b \in 1..Len(pending) : a # b => pending[a] # pending[b]
          /\ lastPage = "ok" => Range(pending) = AcceptedTargets(urls[i])
          /\ lastPage \in {"non200", "error"} => pending = <<>>
    /\ (lastPage \in {"non200", "error"} /\ pc = "fatal") => deleteFailed # {}

\* find_pdf_links has returned for a page that links one document twice, a
\* document by a relative embed target and a file that is no document
C16_Witness ==
    /\ pc = "scan"
    /\ nCalls = 0
    /\ i > 0
    /\ urls[i] = PageA
    /\ lastPage = "ok"
    /\ Len(pending) = 2
    /\ Len(PdfLinksList(PageA)) = 3
    /\ Len(Anchors(PageA)) + Len(Embeds(PageA)) = 4

\* C19: a call of download_and_upload_pdf calls upload_to_drive only when
\* the status was 200 and the body was streamed to the staging file; a call
\* whose status is not 200 or whose request or streaming raises calls no
\* upload (nor does a call killed while it streams), and a Drive file
\* appears only in a call that called upload_to_drive after its download.
\* Every link of a page is given to one call at most: no link is called
\* again and none that was called is still to come.
C19_UploadAfterDownloadOnce ==
    /\ [](last.upload =>
            /\ last.opened
            /\ last.o \in {"ok", "upload_error", "kill_uploading",
                           "kill_uploaded", "kill_added"})
    /\ [](last.o \in {"non200", "conn_error", "stream_error", "kill_streaming"}
            => ~last.upload)
    /\ [][(pc = "scan" /\ remote' # remote) =>
              /\ last'.upload
              /\ last'.o \in {"ok", "kill_uploaded", "kill_added"}]_vars
    /\ [](pc = "scan" =>
              /\ nCalls = Cardinality(called)
              /\ called \cap Range(pending) = {}
              /\ called \cup Range(pending) = found)

\* the first link of a page was uploaded, the streaming of the second one
\* failed, no upload was tried for it and the loop has passed it
C19_Witness ==
    /\ pc = "scan"
    /\ nCalls = 2
    /\ last.o = "stream_error"
    /\ ~last.upload
    /\ Cardinality(uploaded) = 1
    /\ pending = <<>>

\* the files of the first n responses of the provider, in order
RECURSIVE Concat(_, _)
Concat(provider, n) ==
    IF n = 0 THEN <<>> ELSE Concat(provider, n - 1) \o provider[n]

\* C17: list_files_in_folder returns, and what it returns is the
\* concatenation of the files of every response of the provider, which is
\* every file of the folder; it has sent one request per response, the first
\* without a token and each later one with the token of the response before.
C17_ListingComplete ==
    /\ <>(pc = "listed")
    /\ [](pc = "listed" =>
            /\ fileList = Concat(providerPages, Len(providerPages))
            /\ existing_files = ListFilesInFolder(remote, folder_id)
            /\ Len(tokensSent) = Len(providerPages)
            /\ \A k \in 1..Len(tokensSent) :
                  tokensSent[k] = IF k = 1 THEN NoToken ELSE k)
    /\ [](Len(tokensSent) <= Len(providerPages))

\* a listing of three responses, one of them empty and one full, was read
C17_Witness ==
    /\ pc = "listed"
    /\ Len(providerPages) = 3
    /\ \E k \in 1..3 : providerPages[k] = <<>>
    /\ \E k \in 1..3 : Len(providerPages[k]) = MaxPageSize
    /\ Len(fileList) >= 3

====
